---- MODULE Spec2Model ----
(***************************************************************************)
(* Model of awscli/customizations/configure/importer.py:                   *)
(*   CSVCredentialParser   - CSV text -> credentials (character level)     *)
(*   CredentialImporter    - credential -> profile handed to the writer    *)
(*   ConfigureImportCommand - _run_main / _import_csv control flow         *)
(* Text is a sequence of one-character strings.                            *)
(***************************************************************************)
EXTENDS Integers, Sequences, FiniteSets, TLC

VARIABLES
    desc,       \* structured description of the CSV text given to the command
    csv,        \* parsed_args.csv / contents: the CSV text
    skip,       \* parsed_args.skip_invalid of the current invocation
    strict,     \* CSVCredentialParser.strict (mutable instance attribute)
    pc,         \* position of the current invocation
    result,     \* outcome of parse_credentials
    usedStrict, \* value of self.strict read by the last _parse_csv_rows
    idx,        \* position of the for loop of _import_csv (1-based)
    file,       \* content of the credentials file: a sequence of lines
    file0,      \* content of the credentials file when _run_main was entered
    calls,      \* profiles handed to update_config by this invocation
    out,        \* what this invocation printed: the N of each success message
    error,      \* exception that ended this invocation, or "none"
    runs,       \* number of _run_main invocations so far
    prevSkip,   \* skip_invalid of the previous invocation, or "none"
    credentials \* the list _import_csv iterates over

vars == <<desc, csv, skip, strict, pc, result, usedStrict, idx, file, file0,
          calls, out, error, runs, prevSkip, credentials>>

(***************************************************************************)
(* Bounds                                                                  *)
(***************************************************************************)
MaxRows == 2     \* data rows in a CSV text given to the parser alone
MaxCmdRows == 3  \* data rows in a CSV text given to the command
MaxRuns == 2     \* invocations of _run_main on one command object

(***************************************************************************)
(* Characters and the str methods the parser uses                          *)
(***************************************************************************)
UpperLetters == <<"A","B","C","D","E","F","G","H","I","J","K","L","M",
                  "N","O","P","Q","R","S","T","U","V","W","X","Y","Z">>
LowerLetters == <<"a","b","c","d","e","f","g","h","i","j","k","l","m",
                  "n","o","p","q","r","s","t","u","v","w","x","y","z">>

\* characters str.strip() removes (those of them that texts here can hold)
Whitespace == {" ", "\t", "\n", "\r", "\f"}

\* characters str.splitlines() breaks lines at (likewise)
LineBreaks == {"\n", "\r", "\f"}

lower_char(c) ==
    IF \E i \in 1..26 : UpperLetters[i] = c
    THEN LowerLetters[CHOOSE i \in 1..26 : UpperLetters[i] = c]
    ELSE c

\* str.lower()
lower(s) == [i \in 1..Len(s) |-> lower_char(s[i])]

\* str.strip(): the text between the first and the last non-whitespace
\* character
strip(s) ==
    LET keep == {i \in 1..Len(s) : s[i] \notin Whitespace}
    IN  IF keep = {} THEN <<>>
        ELSE SubSeq(s, CHOOSE i \in keep : \A j \in keep : i <= j,
                       CHOOSE i \in keep : \A j \in keep : j <= i)

\* the k-th smallest element of a set of positions
Nth(P, k) == CHOOSE i \in P : Cardinality({j \in P : j < i}) = k - 1

\* str.split(sep): one more field than separators; "" splits to [""]
split(s, sep) ==
    LET P == {i \in 1..Len(s) : s[i] = sep}
        n == Cardinality(P)
    IN  [k \in 1..(n + 1) |->
            SubSeq(s, IF k = 1 THEN 1 ELSE Nth(P, k - 1) + 1,
                      IF k = n + 1 THEN Len(s) ELSE Nth(P, k) - 1)]

\* str.splitlines(): "\r\n" is one break; no empty line after a final break
splitlines(s) ==
    LET B == {i \in 1..Len(s) :
                 /\ s[i] \in LineBreaks
                 /\ ~(s[i] = "\n" /\ i > 1 /\ s[i - 1] = "\r")}
        n == Cardinality(B)
        after(i) == IF s[i] = "\r" /\ i < Len(s) /\ s[i + 1] = "\n"
                    THEN i + 2 ELSE i + 1
        first(k) == IF k = 1 THEN 1 ELSE after(Nth(B, k - 1))
        ended == [k \in 1..n |-> SubSeq(s, first(k), Nth(B, k) - 1)]
        rest == SubSeq(s, first(n + 1), Len(s))
    IN  IF rest = <<>> THEN ended ELSE Append(ended, rest)

\* list.index(x): position (1-based here) of the first element equal to x
index(list, x) == CHOOSE i \in 1..Len(list) :
                      list[i] = x /\ \A j \in 1..(i - 1) : list[j] # x

(***************************************************************************)
(* CSVCredentialParser                                                     *)
(***************************************************************************)
USERNAME_HEADER == <<"U","s","e","r"," ","N","a","m","e">>
AKID_HEADER == <<"A","c","c","e","s","s"," ","K","e","y"," ","I","D">>
SAK_HEADER == <<"S","e","c","r","e","t"," ","A","c","c","e","s","s"," ","k","e","y">>
EXPECTED_HEADERS == <<USERNAME_HEADER, AKID_HEADER, SAK_HEADER>>

\* outcomes: a returned list, a CredentialParserError with one of the four
\* messages, or the IndexError a list subscript raises
Returned(creds_so_far) ==
    [kind |-> "ok", creds |-> creds_so_far, label |-> <<>>, row |-> 0]
Raised(k, header, count) ==
    [kind |-> k, creds |-> <<>>, label |-> header, row |-> count]

format_header_no_lower(header) == strip(header)

format_header(header) == strip(lower(header))

\* the headers list after the comprehension of line 104
parsed_headers_of(header) ==
    LET fields == split(header, ",")
    IN  [i \in 1..Len(fields) |-> format_header(fields[i])]

MissingHeaders_unformatted(parsed_headers) ==
    {k \in 1..3 : \A i \in 1..Len(parsed_headers) :
                      parsed_headers[i] # EXPECTED_HEADERS[k]}

\* expected headers (in _EXPECTED_HEADERS order) not in the parsed headers
MissingHeaders(parsed_headers) ==
    {k \in 1..3 : \A i \in 1..Len(parsed_headers) :
                      parsed_headers[i] # format_header(EXPECTED_HEADERS[k])}

\* returns the indices (1-based) or the HeaderNotFound error of the first
\* expected header that is missing
parse_csv_headers(header) ==
    LET parsed_headers == parsed_headers_of(header)
        missing == MissingHeaders(parsed_headers)
    IN  IF missing # {}
        THEN LET k == CHOOSE m \in missing : \A n \in missing : m <= n
             IN  Raised("HeaderNotFound", EXPECTED_HEADERS[k], 0)
        ELSE [kind |-> "indices",
              indices |-> [k \in 1..3 |->
                  index(parsed_headers, format_header(EXPECTED_HEADERS[k]))]]

row_fields_no_strip(cols, headers) ==
    <<cols[headers[1]], cols[headers[2]], cols[headers[3]]>>

\* username, akid, sak of one row
row_fields(cols, headers) ==
    <<strip(cols[headers[1]]), strip(cols[headers[2]]), strip(cols[headers[3]])>>

\* one iteration of the for loop over rows, then the rest of the loop
RECURSIVE parse_csv_rows_loop(_, _, _, _, _)
parse_csv_rows_loop(rows, headers, is_strict, count0, creds_so_far) ==
    IF rows = <<>> THEN Returned(creds_so_far)
    ELSE
      LET count == count0 + 1
          cols == split(Head(rows), ",")
      IN  IF \E k \in 1..3 : headers[k] > Len(cols)
          THEN Raised("IndexError", <<>>, 0)
          ELSE
            LET fields == row_fields(cols, headers)
                username == fields[1]
                akid == fields[2]
                sak == fields[3]
            IN  IF username = <<>>
                THEN IF is_strict
                     THEN Raised("InvalidUsername", <<>>, count)
                     ELSE parse_csv_rows_loop(Tail(rows), headers, is_strict,
                                              count, creds_so_far)
                ELSE IF akid = <<>> \/ sak = <<>>
                THEN IF is_strict
                     THEN Raised("InvalidSecret", <<>>, count)
                     ELSE parse_csv_rows_loop(Tail(rows), headers, is_strict,
                                              count, creds_so_far)
                ELSE parse_csv_rows_loop(Tail(rows), headers, is_strict, count,
                         Append(creds_so_far, <<username, akid, sak>>))

parse_csv_rows(rows, headers, is_strict) ==
    parse_csv_rows_loop(rows, headers, is_strict, 0, <<>>)

parse_csv(text, is_strict) ==
    IF strip(text) = <<>>
    THEN Raised("EmptyInput", <<>>, 0)
    ELSE LET lines == splitlines(text)
             parsed_headers == parse_csv_headers(lines[1])
         IN  IF parsed_headers.kind # "indices"
             THEN parsed_headers
             ELSE parse_csv_rows(Tail(lines), parsed_headers.indices, is_strict)

parse_credentials(contents, is_strict) == parse_csv(contents, is_strict)

(***************************************************************************)
(* CSV inputs.  A text is described by its header columns, the decoration  *)
(* of the header labels, its data rows (fields given as padding + core),   *)
(* and its line endings; Render turns the description into the text.       *)
(* Columns: "u" user name, "a" access key id, "s" secret access key,       *)
(* "x" any other column.                                                   *)
(***************************************************************************)
UpperOf(c) ==
    IF \E i \in 1..26 : LowerLetters[i] = c
    THEN UpperLetters[CHOOSE i \in 1..26 : LowerLetters[i] = c]
    ELSE c

Label(col, deco) ==
    LET canon == CASE col = "u" -> USERNAME_HEADER
                   [] col = "a" -> AKID_HEADER
                   [] col = "s" -> SAK_HEADER
                   [] OTHER -> <<"P","a","s","s","w","o","r","d">>
        low == [i \in 1..Len(canon) |->
                   IF \E j \in 1..26 : UpperLetters[j] = canon[i]
                   THEN LowerLetters[CHOOSE j \in 1..26 : UpperLetters[j] = canon[i]]
                   ELSE canon[i]]
    IN  CASE deco = "canon" -> canon
          [] deco = "blank" -> <<>>
          [] deco = "lower" -> low
          [] deco = "upper" -> [i \in 1..Len(canon) |-> UpperOf(canon[i])]
          \* the web console's own capitalisation: "User name", "Access key ID"
          [] deco = "console" -> [i \in 1..Len(canon) |->
                                     IF i = 1 \/ (col = "a" /\ i >= 12)
                                     THEN UpperOf(low[i]) ELSE low[i]]
          [] OTHER -> <<" ">> \o canon \o <<"\t", " ">>

F(pad, core) == [pad |-> pad, core |-> core]

FieldText(f) == IF f.pad THEN <<" ">> \o f.core \o <<" ", "\t">> ELSE f.core

RECURSIVE Join(_, _)
Join(fields, sep) ==
    IF fields = <<>> THEN <<>>
    ELSE IF Len(fields) = 1 THEN fields[1]
    ELSE fields[1] \o <<sep>> \o Join(Tail(fields), sep)

HeaderLine(h) == Join([i \in 1..Len(h.cols) |-> Label(h.cols[i], h.deco)], ",")

\* number of comma-separated fields the rendered row has
NFields(h, r) ==
    IF r.blank \/ Len(h.cols) - r.cut <= 0 THEN 1 ELSE Len(h.cols) - r.cut

RowLine(h, r) ==
    IF r.blank THEN <<>>
    ELSE LET all == [i \in 1..Len(h.cols) |->
                        CASE h.cols[i] = "u" -> FieldText(r.u)
                          [] h.cols[i] = "a" -> FieldText(r.a)
                          [] h.cols[i] = "s" -> FieldText(r.s)
                          [] OTHER -> <<"p", "w">>]
         IN  Join(SubSeq(all, 1, Len(h.cols) - r.cut), ",")

Eol(d) == IF d.eol = "crlf" THEN <<"\r", "\n">> ELSE <<"\n">>

RECURSIVE RenderRows(_, _, _)
RenderRows(d, rows, acc) ==
    IF rows = <<>> THEN acc
    ELSE RenderRows(d, Tail(rows), acc \o Eol(d) \o RowLine(d.hdr, Head(rows)))

Render(d) ==
    RenderRows(d, d.rows, HeaderLine(d.hdr)) \o (IF d.trail THEN Eol(d) ELSE <<>>)

Row(u, a, s, cut) == [blank |-> FALSE, u |-> u, a |-> a, s |-> s, cut |-> cut]
BlankRow == [blank |-> TRUE, u |-> F(FALSE, <<>>), a |-> F(FALSE, <<>>),
             s |-> F(FALSE, <<>>), cut |-> 0]

RowAlice == Row(F(FALSE, <<"a","l">>), F(FALSE, <<"K","1">>), F(FALSE, <<"S","1">>), 0)
RowAlice2 == Row(F(FALSE, <<"a","l">>), F(FALSE, <<"K","2">>), F(TRUE, <<"S","2">>), 0)
RowBob == Row(F(TRUE, <<"B","o">>), F(TRUE, <<"K","3">>), F(FALSE, <<"S","3">>), 0)
RowNoUser == Row(F(FALSE, <<>>), F(FALSE, <<"K","4">>), F(FALSE, <<"S","4">>), 0)
RowNoUserNoKey == Row(F(TRUE, <<>>), F(FALSE, <<>>), F(FALSE, <<"S","5">>), 0)
RowNoAkid == Row(F(FALSE, <<"c","y">>), F(TRUE, <<>>), F(FALSE, <<"S","6">>), 0)
RowNoSak == Row(F(FALSE, <<"d","i">>), F(FALSE, <<"K","7">>), F(FALSE, <<>>), 0)
RowShort == Row(F(FALSE, <<"e","d">>), F(FALSE, <<"K","8">>), F(FALSE, <<"S","8">>), 1)

ParseRowKinds == {RowAlice, RowBob, RowNoUser, RowNoUserNoKey, RowNoAkid,
                  RowNoSak, RowShort, BlankRow}

H(cols, deco) == [cols |-> cols, deco |-> deco]
CanonHdr == H(<<"u","a","s">>, "canon")

ValidHeaders ==
    {H(<<"u","a","s">>, d) : d \in {"canon", "lower", "upper", "padded", "console"}}
    \cup {H(c, "canon") : c \in {<<"u","s","a">>, <<"a","u","s">>, <<"a","s","u">>,
                                 <<"s","u","a">>, <<"s","a","u">>}}
    \cup {H(c, "canon") : c \in {<<"x","u","a","s">>, <<"u","x","a","s">>,
                                 <<"u","a","s","x">>}}
    \cup {H(<<"u","x","a","s","x">>, "console"), H(<<"s","x","u","a">>, "padded")}

\* a required column is absent, or (decoration "blank") every label is empty
InvalidHeaders ==
    {H(c, "canon") : c \in {<<"a","s">>, <<"u","s">>, <<"u","a">>, <<"x","a">>, <<>>}}
    \cup {H(<<"x">>, "blank"), H(<<"u","a","s">>, "blank")}

RowSeqs(kinds, n) == UNION {[1..k -> kinds] : k \in 0..n}

Desc(h, rows, eol, trail) == [hdr |-> h, rows |-> rows, eol |-> eol, trail |-> trail]

\* a final blank row is a line of the text only when a line break follows it
Renderable(d) == d.trail \/ d.rows = <<>> \/ ~d.rows[Len(d.rows)].blank

ParseInputs ==
    {d \in {Desc(h, rows, e.eol, e.trail) :
               h \in ValidHeaders \cup InvalidHeaders,
               rows \in RowSeqs(ParseRowKinds, MaxRows),
               e \in {[eol |-> "lf", trail |-> FALSE], [eol |-> "crlf", trail |-> TRUE]}}
       : Renderable(d)}

NoResult == [kind |-> "none", creds |-> <<>>, label |-> <<>>, row |-> 0]

(***************************************************************************)
(* SpecParse: parse_credentials as a pure function of (contents, strict)   *)
(***************************************************************************)
InitParse ==
    /\ desc \in ParseInputs
    /\ csv = Render(desc)
    /\ strict \in BOOLEAN
    /\ skip = ~strict
    /\ pc = "input"
    /\ result = NoResult
    /\ usedStrict = strict
    /\ idx = 1
    /\ file = <<>>
    /\ file0 = <<>>
    /\ calls = <<>>
    /\ out = <<>>
    /\ error = "none"
    /\ runs = 0
    /\ prevSkip = "none"
    /\ credentials = <<>>

ParseCredentials ==
    /\ pc = "input"
    /\ result' = parse_credentials(csv, strict)
    /\ pc' = "returned"
    /\ UNCHANGED <<desc, csv, skip, strict, usedStrict, idx, file, file0, calls,
                   out, error, runs, prevSkip, credentials>>

NextParse == ParseCredentials

SpecParse == InitParse /\ [][NextParse]_vars

(***************************************************************************)
(* What a description says about its text, independently of the parser     *)
(***************************************************************************)
Required == {"u", "a", "s"}

HasCol(h, c) == h.deco # "blank" /\ \E i \in 1..Len(h.cols) : h.cols[i] = c

HeaderValid(h) == \A c \in Required : HasCol(h, c)

LabelOf(c) == CASE c = "u" -> USERNAME_HEADER [] c = "a" -> AKID_HEADER
                [] OTHER -> SAK_HEADER

\* position of the last required column
MaxReq(h) ==
    LET req == {i \in 1..Len(h.cols) : h.cols[i] \in Required}
    IN  IF req = {} THEN 0 ELSE CHOOSE i \in req : \A j \in req : j <= i

EnoughCols(h, r) == NFields(h, r) >= MaxReq(h)

RowValid(r) == ~r.blank /\ r.u.core # <<>> /\ r.a.core # <<>> /\ r.s.core # <<>>

UserEmpty(r) == r.blank \/ r.u.core = <<>>

ExpectedCreds(rows) ==
    LET valid == SelectSeq(rows, RowValid)
    IN  [i \in 1..Len(valid) |-> <<valid[i].u.core, valid[i].a.core, valid[i].s.core>>]

NonBlank(text) == \E i \in 1..Len(text) : text[i] \notin Whitespace

ParseErrors == {"EmptyInput", "HeaderNotFound", "InvalidUsername", "InvalidSecret"}

(***************************************************************************)
(* Claims about parse_credentials (checked under SpecParse)                *)
(***************************************************************************)

\* C1: whenever parse_credentials returns for a CSV whose header has the
\* three required labels and whose data lines all have enough columns, the
\* result is exactly the data lines with three non-empty trimmed fields, in
\* file order, each as the triple of its trimmed values.
C1_ReturnsValidRowsInOrder ==
    (/\ pc = "returned"
     /\ result.kind = "ok"
     /\ HeaderValid(desc.hdr)
     /\ \A i \in 1..Len(desc.rows) : EnoughCols(desc.hdr, desc.rows[i]))
    => /\ result.creds = ExpectedCreds(desc.rows)
       /\ \A i \in 1..Len(result.creds) :
              \A k \in 1..3 : result.creds[i][k] # <<>>
       /\ (\A i \in 1..Len(desc.rows) : RowValid(desc.rows[i]))
              => Len(result.creds) = Len(desc.rows)

\* C1 witness: a lenient parse under a permuted header returned one padded
\* row trimmed and dropped an invalid row before it.
C1_Witness ==
    /\ pc = "returned"
    /\ ~strict
    /\ desc.hdr.cols = <<"s","a","u">>
    /\ desc.rows = <<RowNoAkid, RowBob>>
    /\ result.kind = "ok"
    /\ result.creds = <<<< <<"B","o">>, <<"K","3">>, <<"S","3">> >>>>

\* C2 (as claimed): in strict mode parsing fails at the first data line with
\* an empty trimmed field, with InvalidUsername if its user name is empty,
\* else InvalidSecret, carrying that line's 1-based number among data lines.
C2_StrictFailsAtFirstInvalidRow ==
    (/\ pc = "returned"
     /\ strict
     /\ HeaderValid(desc.hdr)
     /\ \E i \in 1..Len(desc.rows) : ~RowValid(desc.rows[i]))
    => LET k == CHOOSE i \in 1..Len(desc.rows) :
                    /\ ~RowValid(desc.rows[i])
                    /\ \A j \in 1..(i - 1) : RowValid(desc.rows[j])
       IN  /\ result.kind = (IF UserEmpty(desc.rows[k]) THEN "InvalidUsername"
                             ELSE "InvalidSecret")
           /\ result.row = k
           /\ result.creds = <<>>

\* C2 on the rows the subscripts of lines 122-124 accept: the same statement
\* restricted to texts whose data lines all have enough columns.
C2_EnoughColumns ==
    (\A i \in 1..Len(desc.rows) : EnoughCols(desc.hdr, desc.rows[i]))
    => C2_StrictFailsAtFirstInvalidRow

\* C3: a non-blank text whose first line lacks a required label fails with
\* HeaderNotFound naming a missing label, in both modes, whatever the data
\* lines are.
C3_MissingHeaderFailsFirst ==
    (/\ pc = "returned"
     /\ NonBlank(csv)
     /\ ~HeaderValid(desc.hdr))
    => /\ result.kind = "HeaderNotFound"
       /\ \E c \in Required : ~HasCol(desc.hdr, c) /\ result.label = LabelOf(c)
       /\ result.creds = <<>>

\* C3 witness: lenient mode, the secret-key column is missing, and the data
\* lines include a blank line and a valid line.
C3_Witness ==
    /\ pc = "returned"
    /\ ~strict
    /\ desc.hdr.cols = <<"u","a">>
    /\ desc.rows = <<BlankRow, RowAlice>>
    /\ result.kind = "HeaderNotFound"
    /\ result.label = SAK_HEADER

\* C4: any permutation, extra columns, letter case or surrounding whitespace
\* of the header labels is accepted and gives the same outcome as the
\* canonical header with the data columns arranged correspondingly.
C4_HeaderVariantsAgree ==
    (/\ pc = "returned"
     /\ HeaderValid(desc.hdr)
     /\ \A i \in 1..Len(desc.rows) : desc.rows[i].cut = 0)
    => /\ result.kind # "HeaderNotFound"
       /\ result = parse_credentials(Render([desc EXCEPT !.hdr = CanonHdr]), strict)

\* C4 witness: a padded, permuted header with an extra column, whose rows
\* parse to two credentials.
C4_Witness ==
    /\ pc = "returned"
    /\ desc.hdr = H(<<"s","x","u","a">>, "padded")
    /\ desc.rows = <<RowAlice, RowBob>>
    /\ result.kind = "ok"
    /\ Len(result.creds) = 2

\* C8 (as claimed): every failure is one of the four parse errors, and in
\* lenient mode parsing never fails once the text is non-blank and the
\* header has the three required labels: malformed lines are skipped.
C8_MalformedRowsFollowRowRules ==
    pc = "returned"
    => /\ result.kind \in ParseErrors \cup {"ok"}
       /\ (~strict /\ NonBlank(csv) /\ HeaderValid(desc.hdr))
              => /\ result.kind = "ok"
                 /\ result.creds = ExpectedCreds(desc.rows)

(***************************************************************************)
(* The credentials file and ConfigFileWriter.update_config.  A file is a   *)
(* sequence of lines: section headers, key = value lines (with the style   *)
(* the line was written in) and other lines (blank lines, comments).       *)
(***************************************************************************)
Sec(name) == [t |-> "section", name |-> name, key |-> "", value |-> <<>>, style |-> ""]
KV(key, value, style) ==
    [t |-> "kv", name |-> <<>>, key |-> key, value |-> value, style |-> style]
Other(what) == [t |-> "other", name |-> <<>>, key |-> "", value |-> <<>>, style |-> what]

\* the keys of a profile, in the order import_credential inserts them
PROFILE_KEYS == <<"aws_access_key_id", "aws_secret_access_key">>

ProfileValue(profile, key) ==
    IF key = "aws_access_key_id" THEN profile.aws_access_key_id
    ELSE profile.aws_secret_access_key

\* line numbers of the headers of sections called name
SectionHeaders(content, name) ==
    {i \in 1..Len(content) : content[i].t = "section" /\ content[i].name = name}

\* last line of the section whose header is line h
SectionEnd(content, h) ==
    LET nxt == {j \in (h + 1)..Len(content) : content[j].t = "section"}
    IN  IF nxt = {} THEN Len(content)
        ELSE (CHOOSE j \in nxt : \A k \in nxt : j <= k) - 1

InsertAfter(content, i, line) ==
    SubSeq(content, 1, i) \o <<line>> \o SubSeq(content, i + 1, Len(content))

\* replace the value of the key's line in the section at h, or add a line
\* at the end of the section
set_key(content, h, key, value) ==
    LET last == SectionEnd(content, h)
        found == {i \in (h + 1)..last : content[i].t = "kv" /\ content[i].key = key}
    IN  IF found # {}
        THEN LET i == CHOOSE i \in found : \A j \in found : i <= j
             IN  [content EXCEPT ![i].value = value]
        ELSE InsertAfter(content, last, KV(key, value, "canon"))

write_new_section(content, profile) ==
    content
    \o (IF content # <<>> /\ content[Len(content)] # Other("blank")
        THEN <<Other("blank")>> ELSE <<>>)
    \o <<Sec(profile.section)>>
    \o [k \in 1..Len(PROFILE_KEYS) |->
           KV(PROFILE_KEYS[k], ProfileValue(profile, PROFILE_KEYS[k]), "canon")]

update_config_always_append(profile, content) == write_new_section(content, profile)

update_config(profile, content) ==
    LET hs == SectionHeaders(content, profile.section)
    IN  IF hs = {} THEN write_new_section(content, profile)
        ELSE LET h == CHOOSE i \in hs : \A j \in hs : i <= j
                 first == set_key(content, h, PROFILE_KEYS[1],
                                  ProfileValue(profile, PROFILE_KEYS[1]))
             IN  set_key(first, h, PROFILE_KEYS[2],
                         ProfileValue(profile, PROFILE_KEYS[2]))

(***************************************************************************)
(* CredentialImporter and ConfigureImportCommand                           *)
(***************************************************************************)
import_credential_swapped(credential) ==
    [section |-> credential[1],
     aws_access_key_id |-> credential[3],
     aws_secret_access_key |-> credential[2]]

\* the config_profile import_credential hands to update_config
import_credential(credential) ==
    [section |-> credential[1],
     aws_access_key_id |-> credential[2],
     aws_secret_access_key |-> credential[3]]

run_main_strict_sticky(skip_invalid, old_strict) == old_strict /\ ~skip_invalid

\* the value _run_main assigns to self._csv_parser.strict
run_main_strict(skip_invalid, old_strict) == ~skip_invalid

after_parse_import_what_parses(res, text) ==
    IF res.kind = "ok"
    THEN [pc |-> "loop", error |-> "none", credentials |-> res.creds]
    ELSE [pc |-> "loop", error |-> "none",
          credentials |-> parse_credentials(text, FALSE).creds]

\* _import_csv after the call of parse_credentials: an exception leaves
\* _import_csv, a returned list is iterated
after_parse(res, text) ==
    IF res.kind = "ok"
    THEN [pc |-> "loop", error |-> "none", credentials |-> res.creds]
    ELSE [pc |-> "failed", error |-> res.kind, credentials |-> <<>>]

on_io_error_continue(i) == [pc |-> "loop", idx |-> i + 1]

\* an exception of import_credential leaves the for loop and _import_csv
on_io_error(i) == [pc |-> "failed", idx |-> i]

\* the %s of import_msg
printed_count(creds) == Len(creds)

\* _run_main: set the parser's flag, then call _import_csv
RunMain(d, s) ==
    /\ pc \in {"idle", "done", "failed"}
    /\ strict' = run_main_strict(s, strict)
    /\ desc' = d
    /\ csv' = Render(d)
    /\ skip' = s
    /\ runs' = runs + 1
    /\ pc' = "import_csv"
    /\ result' = NoResult
    /\ credentials' = <<>>
    /\ idx' = 1
    /\ file0' = file
    /\ calls' = <<>>
    /\ out' = <<>>
    /\ error' = "none"
    /\ UNCHANGED <<usedStrict, file, prevSkip>>

\* _import_csv, line 68: the whole text is parsed before the loop
ImportCsvParse ==
    /\ pc = "import_csv"
    /\ result' = parse_credentials(csv, strict)
    /\ usedStrict' = strict
    /\ pc' = after_parse(result', csv).pc
    /\ error' = after_parse(result', csv).error
    /\ credentials' = after_parse(result', csv).credentials
    /\ UNCHANGED <<desc, csv, skip, strict, idx, file, file0, calls, out, runs,
                   prevSkip>>

\* one iteration of the loop of line 69: update_config succeeds
ImportCredentialOk ==
    /\ pc = "loop"
    /\ idx <= Len(credentials)
    /\ calls' = Append(calls, import_credential(credentials[idx]))
    /\ file' = update_config(import_credential(credentials[idx]), file)
    /\ idx' = idx + 1
    /\ UNCHANGED <<desc, csv, skip, strict, pc, result, usedStrict, file0, out,
                   error, runs, prevSkip, credentials>>

\* one iteration of the loop of line 69: update_config raises an I/O error
ImportCredentialFails ==
    /\ pc = "loop"
    /\ idx <= Len(credentials)
    /\ calls' = Append(calls, import_credential(credentials[idx]))
    /\ error' = "IOError"
    /\ pc' = on_io_error(idx).pc
    /\ idx' = on_io_error(idx).idx
    /\ UNCHANGED <<desc, csv, skip, strict, result, usedStrict, file, file0, out,
                   runs, prevSkip, credentials>>

\* lines 71-72, after the loop
PrintSuccess ==
    /\ pc = "loop"
    /\ idx > Len(credentials)
    /\ out' = Append(out, printed_count(credentials))
    /\ pc' = "done"
    /\ UNCHANGED <<desc, csv, skip, strict, result, usedStrict, idx, file, file0,
                   calls, error, runs, prevSkip, credentials>>

\* _run_main has returned or raised: its arguments and the locals of
\* _import_csv are gone; the parser's flag and the file remain
Return ==
    /\ pc \in {"done", "failed"}
    /\ pc' = "idle"
    /\ prevSkip' = skip
    /\ desc' = Desc(H(<<>>, "canon"), <<>>, "lf", FALSE)
    /\ csv' = <<>>
    /\ skip' = FALSE
    /\ result' = NoResult
    /\ credentials' = <<>>
    /\ idx' = 1
    /\ file0' = file
    /\ calls' = <<>>
    /\ out' = <<>>
    /\ error' = "none"
    /\ UNCHANGED <<strict, usedStrict, file, runs>>

(***************************************************************************)
(* Inputs of the command                                                   *)
(***************************************************************************)
al == <<"a","l">>
zz == <<"z","z">>

FileEmpty == <<>>

\* the section exists with other values, among a comment and another section
FileWithAlice ==
    <<Other("comment"), Sec(al), KV("aws_access_key_id", <<"O","1">>, "hand"),
      KV("aws_secret_access_key", <<"O","2">>, "hand"), Other("blank"),
      Sec(zz), KV("aws_access_key_id", <<"Z">>, "canon")>>

\* the section exists without an access key id; another section is empty
FilePartialAlice ==
    <<Sec(al), KV("region", <<"R">>, "canon"),
      KV("aws_secret_access_key", <<"S","1">>, "hand"), Sec(<<"B","o">>),
      Other("comment")>>

FileTrailingBlank ==
    <<Sec(zz), KV("aws_access_key_id", <<"Z">>, "canon"), Other("blank")>>

\* a hand-made file with the section twice and a key twice
FileDuplicates ==
    <<Sec(al), KV("aws_access_key_id", <<"K","1">>, "canon"),
      Sec(al), KV("aws_access_key_id", <<"X">>, "canon"),
      KV("aws_access_key_id", <<"Y">>, "canon")>>

InitialFiles ==
    {FileEmpty, FileWithAlice, FilePartialAlice, FileTrailingBlank, FileDuplicates}

CmdFiles == {FileEmpty, FileWithAlice, FilePartialAlice}

CmdRowKinds == {RowAlice, RowBob, RowNoAkid}

OtherInputs ==
    {Desc(H(<<"u","a">>, "canon"), <<RowAlice>>, "lf", TRUE),
     Desc(H(<<>>, "canon"), <<>>, "lf", FALSE)}

CmdInputs ==
    {Desc(H(<<"u","x","a","s">>, "console"), rows, "lf", TRUE) :
        rows \in RowSeqs(CmdRowKinds, MaxCmdRows)}
    \cup OtherInputs

TwiceInputs ==
    {Desc(H(<<"u","x","a","s">>, "console"), rows, "lf", TRUE) :
        rows \in RowSeqs(CmdRowKinds \cup {RowAlice2}, MaxCmdRows)}
    \cup OtherInputs

(***************************************************************************)
(* Spec: invocations of _run_main on one command object                    *)
(***************************************************************************)
InitCommand(files) ==
    /\ desc = Desc(H(<<>>, "canon"), <<>>, "lf", FALSE)
    /\ csv = <<>>
    /\ strict \in BOOLEAN
    /\ skip = FALSE
    /\ pc = "idle"
    /\ result = NoResult
    /\ usedStrict = strict
    /\ idx = 1
    /\ file \in files
    /\ file0 = file
    /\ calls = <<>>
    /\ out = <<>>
    /\ error = "none"
    /\ runs = 0
    /\ prevSkip = "none"
    /\ credentials = <<>>

Init == InitCommand(CmdFiles)

Invoke ==
    /\ pc = "idle"
    /\ runs < MaxRuns
    /\ \E d \in CmdInputs, s \in BOOLEAN : RunMain(d, s)

Next ==
    \/ Invoke
    \/ ImportCsvParse
    \/ ImportCredentialOk
    \/ ImportCredentialFails
    \/ PrintSuccess
    \/ Return

Spec == Init /\ [][Next]_vars

(***************************************************************************)
(* SpecTwice: the same CSV imported twice in a row                         *)
(***************************************************************************)
InitTwice == InitCommand(InitialFiles)

InvokeFirst == runs = 0 /\ \E d \in TwiceInputs, s \in BOOLEAN : RunMain(d, s)

InvokeAgain == runs = 1 /\ pc = "done" /\ RunMain(desc, skip)

NextTwice ==
    \/ InvokeFirst
    \/ InvokeAgain
    \/ ImportCsvParse
    \/ ImportCredentialOk
    \/ PrintSuccess

SpecTwice == InitTwice /\ [][NextTwice]_vars

(***************************************************************************)
(* Claims about the command (checked under Spec)                           *)
(***************************************************************************)
ExpectedProfiles(rows) ==
    [i \in 1..Len(ExpectedCreds(rows)) |->
        [section |-> ExpectedCreds(rows)[i][1],
         aws_access_key_id |-> ExpectedCreds(rows)[i][2],
         aws_secret_access_key |-> ExpectedCreds(rows)[i][3]]]

\* the file after update_config was applied for each profile in turn
RECURSIVE WriteAll(_, _)
WriteAll(content, profiles) ==
    IF profiles = <<>> THEN content
    ELSE WriteAll(update_config(Head(profiles), content), Tail(profiles))

\* C5: when parsing fails with a parse error the invocation ends with that
\* error, having made no update_config call, changed nothing in the file and
\* printed nothing, even when valid rows precede the failing row.
C5_ParseErrorWritesNothing ==
    result.kind \in ParseErrors
    => /\ pc = "failed"
       /\ error = result.kind
       /\ calls = <<>>
       /\ file = file0
       /\ out = <<>>

\* C5 witness: strict mode, a valid row, then a row without access key id.
C5_Witness ==
    /\ pc = "failed"
    /\ desc.rows = <<RowAlice, RowNoAkid>>
    /\ result.kind = "InvalidSecret"
    /\ result.row = 2
    /\ calls = <<>>

\* C6: a successful import has called update_config exactly once per parsed
\* credential, in row order, with section = user name and the two keys set
\* to the row's values; the message is printed only after the last write and
\* its N is the number of writes; with no data rows N is 0 and nothing is
\* written.
C6_OneWritePerCredentialThenMessage ==
    /\ pc # "done" => out = <<>>
    /\ pc = "done"
       => /\ calls = ExpectedProfiles(desc.rows)
          /\ out = <<Len(calls)>>
          /\ file = WriteAll(file0, calls)
          /\ desc.rows = <<>> => (out = <<0>> /\ file = file0)

\* C6 witness: a lenient import that skipped one row and wrote two.
C6_Witness ==
    /\ pc = "done"
    /\ skip
    /\ desc.rows = <<RowBob, RowNoAkid, RowAlice>>
    /\ out = <<2>>
    /\ calls[1].section = <<"B","o">>
    /\ calls[2] = [section |-> al, aws_access_key_id |-> <<"K","1">>,
                   aws_secret_access_key |-> <<"S","1">>]

\* C7: when the write of the k-th credential fails with an I/O error the
\* import stops: the first k-1 credentials are written, nothing is attempted
\* for the later ones and no message is printed.
C7_IOErrorStopsImport ==
    error = "IOError"
    => LET k == Len(calls)
       IN  /\ pc = "failed"
           /\ k >= 1
           /\ k = idx
           /\ calls = SubSeq(ExpectedProfiles(desc.rows), 1, k)
           /\ file = WriteAll(file0, SubSeq(calls, 1, k - 1))
           /\ out = <<>>

\* C7 witness: the second of three writes failed; the first is in the file.
C7_Witness ==
    /\ error = "IOError"
    /\ pc = "failed"
    /\ Len(credentials) = 3
    /\ Len(calls) = 2
    /\ file # file0
    /\ file = update_config(calls[1], file0)

\* C10: every invocation parses in strict mode exactly when its own
\* --skip-invalid flag is false, whatever the flags of earlier invocations
\* and the flag the parser was built with, and parsing leaves the flag as
\* _run_main set it; the list the loop starts with is the parse in that mode.
C10_ModeIsOwnFlag ==
    pc \in {"loop", "done", "failed"}
    => /\ usedStrict = ~skip
       /\ strict = ~skip
       /\ calls = <<>> => result = parse_credentials(csv, ~skip)

\* C10 witness: a strict invocation after a lenient one fails on a row the
\* lenient mode would have skipped.
C10_Witness ==
    /\ runs = 2
    /\ prevSkip = TRUE
    /\ ~skip
    /\ pc = "failed"
    /\ result.kind = "InvalidSecret"

(***************************************************************************)
(* Claim about merging (checked under SpecTwice)                           *)
(***************************************************************************)
SectionCount(content, name) == Cardinality(SectionHeaders(content, name))

\* lines of the key in the first section called name
KeyCount(content, name, key) ==
    LET hs == SectionHeaders(content, name)
    IN  IF hs = {} THEN 0
        ELSE LET h == CHOOSE i \in hs : \A j \in hs : i <= j
             IN  Cardinality({i \in (h + 1)..SectionEnd(content, h) :
                                 content[i].t = "kv" /\ content[i].key = key})

AtLeastOne(n) == IF n = 0 THEN 1 ELSE n

\* C9: merging the credential just merged again leaves the file as it is;
\* the merges of an invocation add no second section of a name and no
\* second line of a key; and importing the same CSV a second time leaves
\* the file as the first import left it.
C9_MergeIsIdempotent ==
    /\ (pc \in {"loop", "done"} /\ calls # <<>>)
       => /\ update_config(calls[Len(calls)], file) = file
          /\ \A i \in 1..Len(calls) :
               /\ SectionCount(file, calls[i].section)
                    = AtLeastOne(SectionCount(file0, calls[i].section))
               /\ \A k \in 1..Len(PROFILE_KEYS) :
                    KeyCount(file, calls[i].section, PROFILE_KEYS[k])
                      = AtLeastOne(KeyCount(file0, calls[i].section, PROFILE_KEYS[k]))
    /\ (runs = 2 /\ pc = "done") => file = file0

\* C9 witness: the second import of a CSV that writes the same section with
\* two different key pairs has finished, into a file that had the section.
C9_Witness ==
    /\ runs = 2
    /\ pc = "done"
    /\ desc.rows = <<RowAlice2, RowBob, RowAlice>>
    /\ Len(calls) = 3
    /\ SectionCount(file, al) = 2

====
